---- MODULE Spec2Model ----
(***************************************************************************)
(* brythonmagic: the %brython line/cell magic (src/brythonmagic.py).       *)
(* One invocation of BrythonMagics.brython is modelled as a pipeline of    *)
(* steps: parse -> inputs -> container -> scripts -> html -> assemble ->   *)
(* publish -> display.  Texts are TLA+ strings built exactly as the code   *)
(* builds them.                                                            *)
(***************************************************************************)
EXTENDS Integers, Sequences, FiniteSets, TLC

(***************************************************************************)
(* Bounds of the model.                                                    *)
(***************************************************************************)
\* the generated script id is drawn from 0..MaxRandom (randint(0, 999999))
MaxRandom == 1
\* at most this many options of one command line differ from their default
MaxOptions == 2

(***************************************************************************)
(* Python values of the host namespace.                                    *)
(***************************************************************************)
PyInt(n) == [t |-> "int", v |-> n]
PyStr(s) == [t |-> "str", v |-> s]
PyList(s) == [t |-> "list", v |-> s]
PyTuple(s) == [t |-> "tuple", v |-> s]
\* a dict is its sequence of <<key, value>> items in insertion order
PyDict(s) == [t |-> "dict", v |-> s]
PyNone == [t |-> "none", v |-> 0]
\* an instance of a user-defined class
PyObject == [t |-> "object", v |-> 0]
\* a list that contains itself
PyCircular == [t |-> "circular", v |-> 0]

\* self.shell.user_ns: the names bound in the notebook
UserNs ==
  [ Z |-> PyList(<<PyInt(1), PyInt(4)>>),
    t |-> PyTuple(<<PyInt(1), PyInt(2)>>),
    m |-> PyDict(<< <<PyStr("x"), PyInt(1)>> >>),
    s |-> PyStr("say \"hi\""),
    html_code |-> PyStr("<p id=\"p1\"></p>"),
    L |-> PyList(<<PyTuple(<<PyInt(1), PyInt(2)>>)>>),
    d |-> PyDict(<< <<PyInt(1), PyStr("a")>> >>),
    N |-> PyList(<<PyNone>>),
    n |-> PyInt(5),
    o |-> PyObject,
    c |-> PyCircular ]

(***************************************************************************)
(* Text helpers.                                                           *)
(***************************************************************************)
RECURSIVE Join(_, _)
\* sep.join(parts)
Join(parts, sep) ==
  IF parts = <<>> THEN ""
  ELSE IF Len(parts) = 1 THEN parts[1]
  ELSE parts[1] \o sep \o Join(Tail(parts), sep)

\* one character as a JSON string literal holds it
JsonEscapeChar(ch) ==
  IF ch = "\"" THEN "\\\""
  ELSE IF ch = "\\" THEN "\\\\"
  ELSE IF ch = "\n" THEN "\\n"
  ELSE ch

RECURSIVE JsonEscape(_)
\* the body of a JSON string literal: every character escaped in turn
JsonEscape(s) ==
  IF Len(s) = 0 THEN ""
  ELSE IF Len(s) = 1 THEN JsonEscapeChar(s)
  ELSE LET half == Len(s) \div 2
       IN  JsonEscape(SubSeq(s, 1, half)) \o JsonEscape(SubSeq(s, half + 1, Len(s)))

\* json.dumps of a str
JsonString(s) == "\"" \o JsonEscape(s) \o "\""

RECURSIVE JsonError(_)
RECURSIVE JsonFirstError(_)
\* the exception json.dumps raises for the value, "" when it raises none
JsonError(val) ==
  IF val.t = "object" THEN "TypeError"
  ELSE IF val.t = "circular" THEN "ValueError"
  ELSE IF val.t \in {"list", "tuple"} THEN JsonFirstError(val.v)
  ELSE IF val.t = "dict"
       THEN JsonFirstError([i \in 1..Len(val.v) |-> val.v[i][2]])
  ELSE ""

JsonFirstError(vals) ==
  IF vals = <<>> THEN ""
  ELSE IF JsonError(Head(vals)) # "" THEN JsonError(Head(vals))
  ELSE JsonFirstError(Tail(vals))

\* a dict key as json.dumps writes it: always a JSON string
JsonKey(k) == IF k.t = "int" THEN JsonString(ToString(k.v)) ELSE JsonString(k.v)

RECURSIVE JsonDumps(_)
\* json.dumps(val) with the default separators, for a value it accepts
JsonDumps(val) ==
  IF val.t = "int" THEN ToString(val.v)
  ELSE IF val.t = "str" THEN JsonString(val.v)
  ELSE IF val.t = "none" THEN "null"
  ELSE IF val.t \in {"list", "tuple"}
       THEN "[" \o Join([i \in 1..Len(val.v) |-> JsonDumps(val.v[i])], ", ") \o "]"
  ELSE "{" \o Join([i \in 1..Len(val.v) |->
                      JsonKey(val.v[i][1]) \o ": " \o JsonDumps(val.v[i][2])], ", ")
           \o "}"

RECURSIVE PyRepr(_)
\* str.format of a value that is not a str: its repr
PyRepr(val) ==
  IF val.t = "int" THEN ToString(val.v)
  ELSE IF val.t = "str" THEN "'" \o val.v \o "'"
  ELSE IF val.t = "none" THEN "None"
  ELSE IF val.t = "list"
       THEN "[" \o Join([i \in 1..Len(val.v) |-> PyRepr(val.v[i])], ", ") \o "]"
  ELSE IF val.t = "tuple"
       THEN "(" \o Join([i \in 1..Len(val.v) |-> PyRepr(val.v[i])], ", ")
                \o (IF Len(val.v) = 1 THEN "," ELSE "") \o ")"
  ELSE IF val.t = "dict"
       THEN "{" \o Join([i \in 1..Len(val.v) |->
                      PyRepr(val.v[i][1]) \o ": " \o PyRepr(val.v[i][2])], ", ")
                \o "}"
  ELSE IF val.t = "circular" THEN "[[...]]"
  ELSE "<__main__.Custom object>"

\* "{}".format(val)
PyFormat(val) == IF val.t = "str" THEN val.v ELSE PyRepr(val)

(***************************************************************************)
(* The parsed command line (parse_argstring).  Every option is declared    *)
(* with action='append', nargs='*': its value is None (here <<>>) or one   *)
(* group of values per occurrence of the flag.                             *)
(***************************************************************************)
\* the occurrences of a flag that expects one value, given ids a and b
OneValueChoices(a, b) ==
  { <<>>, << <<>> >>, << <<a>> >>, << <<a, b>> >>, << <<a>>, <<b>> >>,
    << <<>>, <<a>> >> }

InputChoices ==
  { <<>>, << <<>> >> }
    \cup { << <<x>> >> : x \in (DOMAIN UserNs) \cup {"nope"} }
    \cup { << <<"Z", "t">> >>, << <<"m", "m">> >>, << <<"t", "t">> >>,
           << <<"Z", "c">> >>, << <<"Z">>, <<"n">> >> }

ContainerChoices == OneValueChoices("out1", "out2")

ScriptChoices == OneValueChoices("c", "d")

ScriptsChoices ==
  { <<>>, << <<>> >>, << <<"a">> >>, << <<"a", "b">> >>, << <<"a">>, <<"b">> >> }

HtmlChoices ==
  OneValueChoices("html_code", "s") \cup { << <<"Z">> >>, << <<"nope">> >> }

\* the positional 'code' tokens of the line
CodeChoices == { <<>>, <<"x", "=", "1">> }

\* the cell body: absent in line mode
NoCell == [some |-> FALSE, text |-> ""]
CellChoices == { NoCell, [some |-> TRUE, text |-> "print(1)"] }

\* 1 when an option differs from its default
Given(opt) == IF opt = <<>> THEN 0 ELSE 1
Flag(b) == IF b THEN 1 ELSE 0

\* what the snippet host can answer to the POST
PublishOutcomes == { "ok", "URLError", "NoHtmlUrl", "NoId", "BadJson" }

GistId == "7f3a"
GistUrl == "https://gist.github.com/" \o GistId

(***************************************************************************)
(* State.                                                                  *)
(***************************************************************************)
VARIABLES
  pc,          \* the step of brython() to run next; "raised" after an uncaught exception
  args,        \* the parsed command line
  cell,        \* the cell body
  script_id,   \* local script_id
  code,        \* local code
  params,      \* local params: input (items in insertion order), container
  options,     \* local options, the brython({...}) argument
  scripts_id,  \* local scripts_id, the list behind ipy_id
  markup,      \* local markup
  pre_call,    \* local pre_call
  post_call,   \* local post_call
  code_tmp,    \* local code_tmp, the markup handed to create_gist_fiddle
  code_print,  \* local code_print
  posted,      \* bodies POSTed to https://api.github.com/gists
  response,    \* what the snippet host answered, "" before any POST
  displayed,   \* payloads written to the display sink, display(HTML(...))
  stdout,      \* lines printed
  warned,      \* messages given to warnings.warn
  exc          \* the exception that left brython(), "" when none

vars == << pc, args, cell, script_id, code, params, options, scripts_id, markup,
           pre_call, post_call, code_tmp, code_print, posted, response,
           displayed, stdout, warned, exc >>

locals == << script_id, code, params, options, scripts_id, markup, pre_call,
             post_call, code_tmp, code_print >>

sinks == << posted, response, displayed, stdout, warned >>

NoArgs ==
  [ input |-> <<>>, container |-> <<>>, html |-> <<>>, script |-> <<>>,
    scripts |-> <<>>, print |-> FALSE, fiddle |-> FALSE, embedfiddle |-> FALSE,
    code |-> <<>> ]

Init ==
  /\ pc = "idle"
  /\ args = NoArgs
  /\ cell = NoCell
  /\ script_id = ""
  /\ code = ""
  /\ params = [input |-> <<>>, container |-> ""]
  /\ options = ""
  /\ scripts_id = <<>>
  /\ markup = ""
  /\ pre_call = ""
  /\ post_call = ""
  /\ code_tmp = ""
  /\ code_print = ""
  /\ posted = <<>>
  /\ response = ""
  /\ displayed = <<>>
  /\ stdout = <<>>
  /\ warned = <<>>
  /\ exc = ""

\* an exception leaves brython()
Raise(e) == pc' = "raised" /\ exc' = e

(***************************************************************************)
(* brython(), lines 221-234: parse the line, draw the script id, join the  *)
(* line's code with the cell.                                              *)
(***************************************************************************)
Invoke ==
  /\ pc = "idle"
  /\ \E i \in InputChoices, p \in BOOLEAN, f \in BOOLEAN, e \in BOOLEAN :
       \E c \in { x \in ContainerChoices :
                    Given(i) + Flag(p) + Flag(f) + Flag(e) + Given(x) <= MaxOptions } :
       \E s \in { x \in ScriptChoices :
                    Given(i) + Flag(p) + Flag(f) + Flag(e) + Given(c) + Given(x)
                      <= MaxOptions } :
       \E S \in { x \in ScriptsChoices :
                    Given(i) + Flag(p) + Flag(f) + Flag(e) + Given(c) + Given(s)
                      + Given(x) <= MaxOptions } :
       \E h \in { x \in HtmlChoices :
                    Given(i) + Flag(p) + Flag(f) + Flag(e) + Given(c) + Given(s)
                      + Given(S) + Given(x) <= MaxOptions } :
       \E k \in CodeChoices, b \in CellChoices, r \in 0..MaxRandom :
         /\ args' = [ input |-> i, container |-> c, html |-> h, script |-> s,
                      scripts |-> S, print |-> p, fiddle |-> f,
                      embedfiddle |-> e, code |-> k ]
         /\ cell' = b
         /\ script_id' = ToString(r)
         /\ code' = Join(k, " ") \o b.text
  /\ params' = [input |-> <<>>, container |-> ""]
  /\ pc' = "input"
  /\ UNCHANGED << options, scripts_id, markup, pre_call, post_call, code_tmp,
                  code_print, sinks, exc >>

(***************************************************************************)
(* Lines 239-257: encode the variables named by -i.                        *)
(***************************************************************************)
\* key in dict
DictHas(items, k) == \E i \in 1..Len(items) : items[i][1] = k

\* dict[key], for a key the dict has
DictGet(items, k) == items[CHOOSE i \in 1..Len(items) : items[i][1] = k][2]

\* dict[key] = val: an existing key keeps its place
DictSet(items, k, val) ==
  IF DictHas(items, k)
  THEN [i \in 1..Len(items) |-> IF items[i][1] = k THEN <<k, val>> ELSE items[i]]
  ELSE Append(items, <<k, val>>)

\* the local val of the loop: unbound until its first assignment
Unbound == [bound |-> FALSE, text |-> ""]
Bound(text) == [bound |-> TRUE, text |-> text]

\* lines 250-253: the encoding of a namespace value that json.dumps accepts
EncodeValue(val) ==
  IF val.t = "tuple" THEN "tuple(" \o JsonDumps(val) \o ")" ELSE JsonDumps(val)

\* lines 241-257: one pass of the loop body for the name, from loop state st
InputStep(name, st) ==
  IF DictHas(st.items, name)
  THEN \* lines 245-248: the name was already encoded; its text is a str
       LET new == JsonString(DictGet(st.items, name))
       IN  [st EXCEPT !.val = Bound(new), !.items = DictSet(st.items, name, new)]
  ELSE IF name \notin DOMAIN UserNs
  THEN \* line 250: KeyError raised inside the KeyError handler
       [st EXCEPT !.exc = "KeyError"]
  ELSE IF JsonError(UserNs[name]) = "TypeError"
  THEN \* json.dumps: not JSON serializable; only ValueError is caught
       [st EXCEPT !.exc = "TypeError"]
  ELSE IF JsonError(UserNs[name]) = "ValueError"
  THEN \* lines 254-257: the two prints, then val as the last pass left it
       LET out == st.out \o << name \o " not accepted",
                     "Only Python lists, tuples, dicts and strings are accepted" >>
       IN  IF st.val.bound
           THEN [st EXCEPT !.out = out,
                           !.items = DictSet(st.items, name, st.val.text)]
           ELSE [st EXCEPT !.out = out, !.exc = "UnboundLocalError"]
  ELSE LET new == EncodeValue(UserNs[name])
       IN  [st EXCEPT !.val = Bound(new), !.items = DictSet(st.items, name, new)]

RECURSIVE InputLoop(_, _)
\* line 240: for input in args.input[0]
InputLoop(names, st) ==
  IF names = <<>> \/ st.exc # "" THEN st
  ELSE InputLoop(Tail(names), InputStep(Head(names), st))

CheckInput ==
  /\ pc = "input"
  /\ LET st0 == [items |-> params.input, val |-> Unbound, out |-> <<>>, exc |-> ""]
         st == IF args.input # <<>> THEN InputLoop(args.input[1], st0) ELSE st0
     IN  /\ params' = [params EXCEPT !.input = st.items]
         /\ stdout' = stdout \o st.out
         /\ IF st.exc # "" THEN Raise(st.exc) ELSE pc' = "container" /\ exc' = exc
  /\ UNCHANGED << args, cell, script_id, code, options, scripts_id, markup,
                  pre_call, post_call, code_tmp, code_print, posted, response, displayed,
                  warned >>

(***************************************************************************)
(* Lines 262-272: the container id.                                        *)
(***************************************************************************)
WarnContainer == "\nOnly one container accepted (see -c, --container)"
WarnScript == "\nOnly one script name accepted (see -s, --script)"
WarnHtml == "\nOnly one html string code accepted (see -h, --html)"

\* mutant: a single value already warns
WarnIfMany_OffByOne(group, msg) ==
  IF Len(group) >= 1 THEN Append(warned, msg) ELSE warned

\* the warnings after a step that looked at the first group of an option
WarnIfMany(group, msg) == IF Len(group) > 1 THEN Append(warned, msg) ELSE warned

\* mutant: the prefix is forgotten
DefaultContainer_NoPrefix(id) == id

\* line 272
DefaultContainer(id) == "brython_container_" \o id

CheckContainer ==
  /\ pc = "container"
  /\ IF args.container # <<>>
     THEN /\ warned' = WarnIfMany(args.container[1], WarnContainer)
          /\ IF args.container[1] = <<>>
             THEN Raise("IndexError") /\ params' = params
             ELSE /\ params' = [params EXCEPT !.container = args.container[1][1]]
                  /\ pc' = "scripts"
                  /\ exc' = exc
     ELSE /\ params' = [params EXCEPT !.container = DefaultContainer(script_id)]
          /\ warned' = warned
          /\ pc' = "scripts"
          /\ exc' = exc
  /\ UNCHANGED << args, cell, script_id, code, options, scripts_id, markup,
                  pre_call, post_call, code_tmp, code_print, posted, response, displayed,
                  stdout >>

(***************************************************************************)
(* Lines 277-289: the script id and the ids to activate.                   *)
(***************************************************************************)
\* mutant: the current id is put first
ScriptsId_CurrentFirst(scripts, id) ==
  <<id>> \o (IF scripts # <<>> THEN scripts[1] ELSE <<>>)

\* lines 282-286
ScriptsId(scripts, id) ==
  (IF scripts # <<>> THEN scripts[1] ELSE <<>>) \o <<id>>

\* lines 288-289
Options(ids) ==
  "{debug:1, static_stdlib_import: false, ipy_id: "
    \o JsonDumps(PyList([i \in 1..Len(ids) |-> PyStr(ids[i])])) \o "}"

CheckScripts ==
  /\ pc = "scripts"
  /\ IF args.script # <<>>
     THEN /\ warned' = WarnIfMany(args.script[1], WarnScript)
          /\ IF args.script[1] = <<>>
             THEN /\ Raise("IndexError")
                  /\ UNCHANGED << script_id, scripts_id, options >>
             ELSE /\ script_id' = args.script[1][1]
                  /\ scripts_id' = ScriptsId(args.scripts, script_id')
                  /\ options' = Options(scripts_id')
                  /\ pc' = "html"
                  /\ exc' = exc
     ELSE /\ warned' = warned
          /\ script_id' = script_id
          /\ scripts_id' = ScriptsId(args.scripts, script_id)
          /\ options' = Options(scripts_id')
          /\ pc' = "html"
          /\ exc' = exc
  /\ UNCHANGED << args, cell, code, params, markup, pre_call, post_call,
                  code_tmp, code_print, posted, response, displayed, stdout >>

(***************************************************************************)
(* Lines 294-303: the html override.                                       *)
(***************************************************************************)
CheckHtml ==
  /\ pc = "html"
  /\ IF args.html # <<>>
     THEN /\ warned' = WarnIfMany(args.html[1], WarnHtml)
          /\ IF args.html[1] = <<>>
             THEN Raise("IndexError") /\ markup' = markup
             ELSE IF args.html[1][1] \notin DOMAIN UserNs
             THEN Raise("KeyError") /\ markup' = markup
             ELSE \* markup is kept as the text line 316 formats it to
                  /\ markup' = PyFormat(UserNs[args.html[1][1]])
                  /\ pc' = "assemble"
                  /\ exc' = exc
     ELSE /\ warned' = warned
          /\ markup' = ""
          /\ pc' = "assemble"
          /\ exc' = exc
  /\ UNCHANGED << args, cell, script_id, code, params, options, scripts_id,
                  pre_call, post_call, code_tmp, code_print, posted, response, displayed,
                  stdout >>

(***************************************************************************)
(* Lines 308-326: the markup.                                              *)
(***************************************************************************)
\* line 308
ScriptOpen(id) == "  <script id=\"" \o id \o "\" type=\"text/python\">\n"

\* lines 309-313: the injected assignments, one per line, between two comments
InputLines(items) ==
  IF items = <<>> THEN ""
  ELSE "## Variables defined in the Python namespace\n"
         \o Join([i \in 1..Len(items) |-> items[i][1] \o " = " \o items[i][2] \o "\n"], "")
         \o "## End of variables defined in the IPython namespace\n\n"

\* lines 315-317: the end of the script block and the container div
ContainerDiv(id, inner) ==
  "\n  </script>\n" \o "  <div id=\"" \o id \o "\">" \o inner \o "</div>\n"

\* line 320
BootstrapTag(opts) ==
  "  <script type=\"text/javascript\">brython(" \o opts \o ");</script>\n"

\* line 318, line 331
Publishing == args.fiddle \/ args.embedfiddle

\* mutant: the snapshot is taken after line 320
SnapshotPostCall_AfterBootstrap(div, boot) == div \o boot

\* the value of post_call that line 319 reads: line 320 has not run yet
SnapshotPostCall(div, boot) == div

Assemble ==
  /\ pc = "assemble"
  /\ pre_call' = ScriptOpen(script_id) \o InputLines(params.input)
  /\ post_call' = ContainerDiv(params.container, markup) \o BootstrapTag(options)
  /\ code_tmp' = IF Publishing
                 THEN pre_call' \o code
                        \o SnapshotPostCall(ContainerDiv(params.container, markup),
                                            BootstrapTag(options))
                 ELSE code_tmp
  /\ code_print' = pre_call' \o code \o post_call'
  /\ code' = code_print'
  /\ pc' = "publish"
  /\ UNCHANGED << args, cell, script_id, params, options, scripts_id, markup,
                  sinks, exc >>

(***************************************************************************)
(* create_gist_fiddle, lines 62-93, and lines 331-343.                     *)
(***************************************************************************)
GistDescription ==
  "Gist created automatically using [brythonmagic]"
    \o "(https://github.com/kikocorreoso/brythonmagic) by an user of an IPython notebook"

\* lines 67-69: the page that runs the snippet on load
FiddlePage(input) == "<body onload=\"brython(2)\">\n" \o input \o "\n</body>"

\* lines 71-77
FiddleManifest ==
  "name: Brythonmagic\n"
    \o "description: Some description, please keep it in one line\n"
    \o "authors:\n"
    \o "  - Automatically generated by Brythonmagic\n"
    \o "resources:\n"
    \o "  - http://www.brython.info/src/brython_dist.js\n"
    \o "normalize_css: no"

\* lines 79-84: the body of the POST
GistRequest(input) ==
  JsonDumps(PyDict(<<
    <<PyStr("description"), PyStr(GistDescription)>>,
    <<PyStr("public"), PyStr("true")>>,
    <<PyStr("files"), PyDict(<<
       <<PyStr("fiddle.html"), PyDict(<< <<PyStr("content"), PyStr(FiddlePage(input))>> >>)>>,
       <<PyStr("fiddle.manifest"), PyDict(<< <<PyStr("content"), PyStr(FiddleManifest)>> >>)>>
     >>)>> >>))

\* lines 91-93
JsfUrl(id) == "http://jsfiddle.net/gh/gist/library/pure/" \o id \o "/"

\* mutant: an answer without 'id' is taken for a success
PublishError_MissingIdIgnored(outcome) ==
  IF outcome = "URLError" THEN "URLError"
  ELSE IF outcome = "NoHtmlUrl" THEN "KeyError"
  ELSE IF outcome = "BadJson" THEN "ValueError"
  ELSE ""

\* the exception create_gist_fiddle lets through for an answer of the host
PublishError(outcome) ==
  IF outcome = "URLError" THEN "URLError"
  ELSE IF outcome \in {"NoHtmlUrl", "NoId"} THEN "KeyError"
  ELSE IF outcome = "BadJson" THEN "ValueError"
  ELSE ""

\* lines 333-336
GistLinks(gist_url, jsf_url) ==
  "<br><a href=\"" \o gist_url \o "\" target=\"_blank\">gist link</a>\n"
    \o "<br><a href=\"" \o jsf_url \o "\" target=\"_blank\">jsfiddle link</a>\n"

\* line 343
FiddleFrame(jsf_url) ==
  "<br><iframe src=\"" \o jsf_url \o "\" style=\"height:400px; width: 100%;\"></iframe>"

Publish ==
  /\ pc = "publish"
  /\ IF Publishing
     THEN /\ posted' = Append(posted, GistRequest(code_tmp))
          /\ \E outcome \in PublishOutcomes :
               /\ response' = outcome
               /\ IF PublishError(outcome) # ""
                  THEN Raise(PublishError(outcome)) /\ code' = code
                     ELSE /\ code' = code \o GistLinks(GistUrl, JsfUrl(GistId))
                                  \o (IF args.embedfiddle
                                      THEN FiddleFrame(JsfUrl(GistId)) ELSE "")
                       /\ pc' = "display"
                       /\ exc' = exc
     ELSE /\ posted' = posted
          /\ response' = response
          /\ code' = code
          /\ pc' = "display"
          /\ exc' = exc
  /\ UNCHANGED << args, cell, script_id, params, options, scripts_id, markup,
                  pre_call, post_call, code_tmp, code_print, displayed, stdout,
                  warned >>

(***************************************************************************)
(* Lines 348-354: the display write, the echo of -p, the fallback.         *)
(***************************************************************************)
Fallback ==
  << "Something went wrong.",
     "Please, see your browser javascript console for more details." >>

\* mutant: the handler lets the exception through
Except_Reraise(raised) == [pc |-> "raised", exc |-> raised, out |-> <<>>]

\* lines 352-354: the bare except swallows whatever the try block raised
Except(raised) == [pc |-> "done", exc |-> "", out |-> Fallback]

Display ==
  /\ pc = "display"
  /\ \E displayRaises \in BOOLEAN, printRaises \in BOOLEAN :
       IF displayRaises
       THEN /\ displayed' = displayed
            /\ stdout' = stdout \o Except("display").out
            /\ pc' = Except("display").pc
            /\ exc' = Except("display").exc
       ELSE /\ displayed' = Append(displayed, code)
            /\ IF args.print /\ printRaises
               THEN /\ stdout' = stdout \o Except("print").out
                    /\ pc' = Except("print").pc
                    /\ exc' = Except("print").exc
               ELSE /\ stdout' = IF args.print THEN Append(stdout, code_print)
                                  ELSE stdout
                    /\ pc' = "done"
                    /\ exc' = exc
  /\ UNCHANGED << args, cell, locals, posted, response, warned >>

Next ==
  \/ Invoke
  \/ CheckInput
  \/ CheckContainer
  \/ CheckScripts
  \/ CheckHtml
  \/ Assemble
  \/ Publish
  \/ Display

Spec == Init /\ [][Next]_vars

(***************************************************************************)
(* Vocabulary of the properties.                                           *)
(***************************************************************************)
\* brython() has returned or an exception has left it
Terminated == pc \in {"done", "raised"}

\* the markup has been assembled
Assembled == pc \in {"publish", "display", "done"} \/ (pc = "raised" /\ code_print # "")

StartsWith(s, prefix) ==
  Len(s) >= Len(prefix) /\ SubSeq(s, 1, Len(prefix)) = prefix

EndsWith(s, suffix) ==
  Len(s) >= Len(suffix) /\ SubSeq(s, Len(s) - Len(suffix) + 1, Len(s)) = suffix

\* the positions where sub occurs in s
Occurrences(s, sub) ==
  { i \in 1..(Len(s) - Len(sub) + 1) : SubSeq(s, i, i + Len(sub) - 1) = sub }

Contains(s, sub) == Occurrences(s, sub) # {}

\* the elements of a sequence
Range(seq) == { seq[i] : i \in 1..Len(seq) }

RECURSIVE Flatten(_)
\* every value given to an option, over all occurrences of its flag
Flatten(groups) ==
  IF groups = <<>> THEN <<>> ELSE Head(groups) \o Flatten(Tail(groups))

\* the values of the first occurrence of a flag
FirstGroup(groups) == IF groups = <<>> THEN <<>> ELSE groups[1]

\* the ids the model can generate
GeneratedIds == { ToString(r) : r \in 0..MaxRandom }

\* a JSON array of plain ids, as the bootstrap call must carry it
IdArray(ids) == "[" \o Join([i \in 1..Len(ids) |-> "\"" \o ids[i] \o "\""], ", ") \o "]"

\* the opening of the bootstrap script tag
BootstrapMark == "<script type=\"text/javascript\">brython("

(***************************************************************************)
(* C4, C10: the container id when -c is not given.                         *)
(***************************************************************************)
\* C4: with neither -s nor -c, the emitted script block and container div
\* carry distinct ids, and the container id is "brython_container_" followed
\* by the script id, whatever id was generated.
C4_DerivedContainer ==
  (Assembled /\ args.script = <<>> /\ args.container = <<>>)
    => /\ script_id \in GeneratedIds
       /\ params.container # script_id
       /\ params.container = "brython_container_" \o script_id
       /\ StartsWith(code_print, "  <script id=\"" \o script_id \o "\" ")
       /\ Contains(code_print, "  <div id=\"" \o params.container \o "\">")

C4_Witness ==
  /\ pc = "done"
  /\ args.script = <<>> /\ args.container = <<>>
  /\ displayed # <<>>
  /\ Contains(displayed[1], "<div id=\"brython_container_1\">")

\* C10: without -c, the container id is derived from the id the emitted
\* script tag carries, also when that id was given with -s.
C10_ContainerFollowsScriptTag ==
  (Assembled /\ args.container = <<>>)
    => /\ StartsWith(code_print, "  <script id=\"" \o script_id \o "\" ")
       /\ Contains(code_print,
                   "  <div id=\"brython_container_" \o script_id \o "\">")

(***************************************************************************)
(* C3: the ids of the bootstrap call.                                      *)
(***************************************************************************)
\* the current script id is the explicit one, or else a generated one
CurrentScriptId ==
  IF args.script # <<>> THEN script_id = args.script[1][1]
  ELSE script_id \in GeneratedIds

\* C3 as stated: ipy_id is every id given to -S, in order, then the current
\* script id.
C3_AllScriptsThenCurrent ==
  Assembled
    => /\ CurrentScriptId
       /\ EndsWith(code_print,
            "brython({debug:1, static_stdlib_import: false, ipy_id: "
              \o IdArray(Flatten(args.scripts) \o <<script_id>>)
              \o "});</script>\n")

\* C3 amended: ipy_id is the ids of the first occurrence of -S, in order,
\* then the current script id; ids of later occurrences of -S are dropped.
C3_FirstScriptsThenCurrent ==
  Assembled
    => /\ CurrentScriptId
       /\ EndsWith(code_print,
            "brython({debug:1, static_stdlib_import: false, ipy_id: "
              \o IdArray(FirstGroup(args.scripts) \o <<script_id>>)
              \o "});</script>\n")

C3_Witness ==
  /\ pc = "done"
  /\ args.scripts = << <<"a", "b">> >>
  /\ args.script = << <<"c">> >>
  /\ displayed # <<>>
  /\ Contains(displayed[1], "ipy_id: [\"a\", \"b\", \"c\"]}")

(***************************************************************************)
(* C1: a variable of an unsupported shape named by -i.                     *)
(***************************************************************************)
\* the Python type a value is an instance of
PyShape(val) == IF val.t = "circular" THEN "list" ELSE val.t

AcceptedShapes == {"list", "tuple", "dict", "str"}

\* C1: when -i names a variable whose value is not a list, tuple, dict or
\* str, the invocation prints a usage error naming it and writes nothing to
\* the display sink.
C1_UnsupportedInputAborts ==
  Terminated
    => \A name \in Range(Flatten(args.input)) \cap DOMAIN UserNs :
         PyShape(UserNs[name]) \notin AcceptedShapes
           => /\ (name \o " not accepted") \in Range(stdout)
              /\ displayed = <<>>

(***************************************************************************)
(* C2: a failed publish.                                                   *)
(***************************************************************************)
PublishFailed == response \notin {"", "ok"}

\* C2: when the snippet host fails, the failure leaves brython() and nothing
\* is ever written to the display sink; a display write of a publishing
\* invocation happens once, after a successful publish, and carries the links.
C2_FailedPublishShowsNothing ==
  /\ PublishFailed
       => /\ pc = "raised"
          /\ exc \in {"URLError", "KeyError", "ValueError"}
          /\ displayed = <<>>
  /\ Len(displayed) <= 1
  /\ (Publishing /\ displayed # <<>>)
       => /\ response = "ok"
          /\ Len(posted) = 1
          /\ Contains(displayed[1], "\" target=\"_blank\">gist link</a>\n")
          /\ Contains(displayed[1], "\" target=\"_blank\">jsfiddle link</a>\n")

C2_Witness ==
  /\ response = "NoId"
  /\ args.embedfiddle
  /\ Len(posted) = 1
  /\ pc = "raised"
  /\ displayed = <<>>

(***************************************************************************)
(* C5, C6: the options that expect exactly one value.                      *)
(***************************************************************************)
\* every name of the first -i occurrence is bound to a value json.dumps takes
InputsEncode ==
  \A name \in Range(FirstGroup(args.input)) :
    name \in DOMAIN UserNs /\ UserNs[name].t \notin {"object", "circular"}

\* a message was given to warnings.warn exactly once / never
WarnedOnce(msg) == Cardinality({ i \in 1..Len(warned) : warned[i] = msg }) = 1
NeverWarned(msg) == msg \notin Range(warned)

\* C5 for a reading Values(_) of "the values the option is supplied with":
\* in an invocation that nothing else stops, when each of -c, -h, -s is
\* absent or supplied with k >= 1 values, the invocation reaches the display
\* step, the first value is the one used, and it warns iff k > 1.
C5_OnlyFirstValue(Values(_)) ==
  LET c == Values(args.container)
      h == Values(args.html)
      s == Values(args.script)
  IN  ( /\ Terminated
        /\ InputsEncode
        /\ ~PublishFailed
        /\ args.container = <<>> \/ Len(c) >= 1
        /\ args.script = <<>> \/ Len(s) >= 1
        /\ args.html = <<>>
             \/ (Len(h) >= 1 /\ h[1] \in DOMAIN UserNs /\ UserNs[h[1]].t = "str") )
        => /\ pc = "done"
           /\ exc = ""
           /\ args.container # <<>>
                => /\ params.container = c[1]
                   /\ Contains(code_print, "  <div id=\"" \o c[1] \o "\">")
                   /\ IF Len(c) > 1 THEN WarnedOnce(WarnContainer)
                      ELSE NeverWarned(WarnContainer)
           /\ args.script # <<>>
                => /\ StartsWith(code_print, "  <script id=\"" \o s[1] \o "\" ")
                   /\ IF Len(s) > 1 THEN WarnedOnce(WarnScript)
                      ELSE NeverWarned(WarnScript)
           /\ args.html # <<>>
                => /\ Contains(code_print, "\">" \o UserNs[h[1]].v \o "</div>\n")
                   /\ IF Len(h) > 1 THEN WarnedOnce(WarnHtml)
                      ELSE NeverWarned(WarnHtml)

ZeroValues(opt) == opt # <<>> /\ opt[1] = <<>>

\* the -h name does not denote a text of the namespace
HtmlNotText ==
  /\ args.html # <<>>
  /\ args.html[1] # <<>>
  /\ \/ args.html[1][1] \notin DOMAIN UserNs
     \/ UserNs[args.html[1][1]].t # "str"

\* C6: -c, -h or -s with zero values, or a -h name that is not a text, is
\* reported as printed text; no exception leaves brython() and nothing is
\* written to the display sink.
C6_UsageErrorIsPrinted ==
  ( /\ Terminated
    /\ args.input = <<>>
    /\ \/ ZeroValues(args.container)
       \/ ZeroValues(args.html)
       \/ ZeroValues(args.script)
       \/ HtmlNotText )
    => /\ exc = ""
       /\ stdout # <<>>
       /\ displayed = <<>>

(***************************************************************************)
(* C7: a failing display step.                                             *)
(***************************************************************************)
FallbackText ==
  << "Something went wrong.",
     "Please, see your browser javascript console for more details." >>

\* C7: whatever the display step does, brython() returns normally; when the
\* display write or the echo of -p raised, the two fallback lines are printed.
C7_DisplayFailureIsSwallowed ==
  [][ pc = "display"
        => /\ pc' = "done"
           /\ exc' = ""
           /\ displayed' = displayed => stdout' = stdout \o FallbackText
           /\ displayed' # displayed
                => /\ displayed' = Append(displayed, code)
                   /\ \/ stdout' = stdout \o FallbackText
                      \/ stdout' = IF args.print THEN Append(stdout, code_print)
                                   ELSE stdout ]_vars

C7_Witness ==
  /\ pc = "done"
  /\ exc = ""
  /\ displayed = <<>>
  /\ stdout = FallbackText

(***************************************************************************)
(* C8: the published form and the displayed form.                          *)
(***************************************************************************)
\* the source text of the invocation: the line's code joined to the cell
Body == Join(args.code, " ") \o cell.text

\* the page create_gist_fiddle must publish for a snapshot
PageShell(snapshot) == "<body onload=\"brython(2)\">\n" \o snapshot \o "\n</body>"

\* C8: when publishing, the snapshot handed to the publisher is script block,
\* body and container div without any bootstrap tag; the publisher wraps it
\* in the on-load page shell; the displayed markup is the snapshot, one
\* bootstrap tag, then the links; the two forms differ.
C8_SnapshotExcludesBootstrap ==
  (Assembled /\ Publishing)
    => /\ code_tmp = pre_call \o Body \o "\n  </script>\n  <div id=\""
                       \o params.container \o "\">" \o markup \o "</div>\n"
       /\ StartsWith(pre_call, "  <script id=\"" \o script_id \o "\" type=\"text/python\">\n")
       /\ ~Contains(code_tmp, BootstrapMark)
       /\ code_print = code_tmp \o "  " \o BootstrapMark \o options \o ");</script>\n"
       /\ \A i \in 1..Len(posted) :
            Contains(posted[i], "{\"content\": \""
                                  \o JsonEscape(PageShell(code_tmp)) \o "\"}")
       /\ displayed # <<>>
            => /\ posted # <<>>
               /\ StartsWith(displayed[1], code_print \o "<br><a href=\"")
               /\ Cardinality(Occurrences(displayed[1], BootstrapMark)) = 1
               /\ displayed[1] # PageShell(code_tmp)
               /\ displayed[1] # code_tmp

C8_Witness ==
  /\ pc = "done"
  /\ args.fiddle
  /\ Len(posted) = 1
  /\ displayed # <<>>
  /\ Contains(posted[1], "<body onload=")
  /\ ~Contains(posted[1], "ipy_id")
  /\ Contains(displayed[1], "ipy_id")

(***************************************************************************)
(* C9: reading an injected line back.  The embedded interpreter evaluates  *)
(* the right-hand side as a Python expression; PyEval is that evaluation   *)
(* for the literals the encoder can write.                                 *)
(***************************************************************************)
NoValue == [ok |-> FALSE, val |-> PyNone, rest |-> ""]
Value(val, rest) == [ok |-> TRUE, val |-> val, rest |-> rest]

RECURSIVE SkipSpaces(_)
SkipSpaces(s) ==
  IF Len(s) > 0 /\ Head(s) = " " THEN SkipSpaces(Tail(s)) ELSE s

IsDigit(ch) == ch \in { ToString(d) : d \in 0..9 }
DigitValue(ch) == CHOOSE d \in 0..9 : ToString(d) = ch

RECURSIVE ReadInt(_, _)
\* the digits at the head of s, after the digits read so far
ReadInt(s, n) ==
  IF Len(s) > 0 /\ IsDigit(Head(s))
  THEN ReadInt(Tail(s), 10 * n + DigitValue(Head(s)))
  ELSE Value(PyInt(n), s)

RECURSIVE ReadString(_, _)
\* the rest of a string literal after its opening quote
ReadString(s, text) ==
  IF Len(s) = 0 THEN NoValue
  ELSE IF Head(s) = "\"" THEN Value(PyStr(text), Tail(s))
  ELSE IF Head(s) = "\\"
       THEN IF Len(s) < 2 THEN NoValue
            ELSE LET e == Head(Tail(s))
                 IN  IF e = "n" THEN ReadString(Tail(Tail(s)), text \o "\n")
                     ELSE IF e \in {"\"", "\\"} THEN ReadString(Tail(Tail(s)), text \o e)
                     ELSE NoValue
  ELSE ReadString(Tail(s), text \o Head(s))

RECURSIVE ReadValue(_)
RECURSIVE ReadItems(_, _)
RECURSIVE ReadPairs(_, _)
\* one expression at the head of s; a bare name such as null is a NameError
ReadValue(s0) ==
  LET s == SkipSpaces(s0)
  IN  IF Len(s) = 0 THEN NoValue
      ELSE IF StartsWith(s, "tuple(")
      THEN LET r == ReadValue(SubSeq(s, 7, Len(s)))
               rest == SkipSpaces(r.rest)
           IN  IF r.ok /\ r.val.t \in {"list", "tuple"}
                       /\ Len(rest) > 0 /\ Head(rest) = ")"
               THEN Value(PyTuple(r.val.v), Tail(rest))
               ELSE NoValue
      ELSE IF Head(s) = "[" THEN ReadItems(Tail(s), <<>>)
      ELSE IF Head(s) = "{" THEN ReadPairs(Tail(s), <<>>)
      ELSE IF Head(s) = "\"" THEN ReadString(Tail(s), "")
      ELSE IF IsDigit(Head(s)) THEN ReadInt(s, 0)
      ELSE NoValue

\* the items of a list display after its opening bracket
ReadItems(s0, items) ==
  LET s == SkipSpaces(s0)
  IN  IF Len(s) = 0 THEN NoValue
      ELSE IF Head(s) = "]" THEN Value(PyList(items), Tail(s))
      ELSE LET r == ReadValue(s)
               rest == SkipSpaces(r.rest)
           IN  IF ~r.ok \/ Len(rest) = 0 THEN NoValue
               ELSE IF Head(rest) = "," THEN ReadItems(Tail(rest), Append(items, r.val))
               ELSE IF Head(rest) = "]"
                    THEN Value(PyList(Append(items, r.val)), Tail(rest))
               ELSE NoValue

\* the items of a dict display after its opening brace
ReadPairs(s0, items) ==
  LET s == SkipSpaces(s0)
  IN  IF Len(s) = 0 THEN NoValue
      ELSE IF Head(s) = "}" THEN Value(PyDict(items), Tail(s))
      ELSE LET k == ReadValue(s)
               colon == SkipSpaces(k.rest)
           IN  IF ~k.ok \/ Len(colon) = 0 \/ Head(colon) # ":" THEN NoValue
               ELSE LET r == ReadValue(Tail(colon))
                        rest == SkipSpaces(r.rest)
                        more == Append(items, <<k.val, r.val>>)
                    IN  IF ~r.ok \/ Len(rest) = 0 THEN NoValue
                        ELSE IF Head(rest) = "," THEN ReadPairs(Tail(rest), more)
                        ELSE IF Head(rest) = "}" THEN Value(PyDict(more), Tail(rest))
                        ELSE NoValue

\* the value of a whole expression
PyEval(text) ==
  LET r == ReadValue(text)
  IN  IF r.ok /\ SkipSpaces(r.rest) = "" THEN r ELSE NoValue

\* C9: for every variable of an accepted shape named by -i, the script block
\* holds the line 'name = <encoded>', a tuple is written tuple([...]) and
\* the others as their JSON text, and evaluating <encoded> gives back a value
\* equal to the source, tuples still tuples.
C9_InjectedLineRoundTrips ==
  Assembled
    => \A name \in Range(FirstGroup(args.input)) \cap DOMAIN UserNs :
         PyShape(UserNs[name]) \in AcceptedShapes
           => \E i \in 1..Len(params.input) :
                /\ params.input[i][1] = name
                /\ Contains(pre_call, name \o " = " \o params.input[i][2] \o "\n")
                /\ StartsWith(params.input[i][2], "tuple([")
                     <=> UserNs[name].t = "tuple"
                /\ PyEval(params.input[i][2]).ok
                /\ PyEval(params.input[i][2]).val = UserNs[name]

====
